---- MODULE Spec2Model ----
(***************************************************************************)
(* Model of the arxiv-browse PDF dissemination route                       *)
(* (browse/routes/dissemination.py) and of the author listing controller   *)
(* (browse/controllers/list_page/author.py).                               *)
(*                                                                         *)
(* Strings whose content the code inspects (the identifier path, the       *)
(* author id) are sequences of one-character strings, so len(),            *)
(* startswith(), unquote() and the ORCID regular expression are computed.  *)
(* Collaborators outside these two files (the identifier parser, the       *)
(* article store, the user database, next_publish) are environment         *)
(* choices: each call draws one of the outcomes the callee can produce.    *)
(***************************************************************************)
EXTENDS Integers, Sequences, FiniteSets, TLC

(* ------------------------------ bounds -------------------------------- *)

\* padding characters appended to a base identifier: MinPad..MaxPad and 0
MinPad == 32
MaxPad == 40
\* file sizes offered by the article store
MaxSize == 2
\* publish slots offered by next_publish()
MaxPublish == 2

(* --------------------------- program constants ------------------------ *)

\* dissemination.py:56  len(arxiv_id) > 40
MaxIdLen == 40

\* dissemination.py:58  'arxiv/'
LegacyPrefix == <<"a", "r", "x", "i", "v", "/">>

\* dissemination.py:59  abort description
LegacyMsg == "do not prefix with arxiv/ for non-legacy ids"

None == [tag |-> "None"]

(* ------------------------ request input domains ----------------------- *)

Archives == {<<>>, <<"a", "r", "x", "i", "v">>, <<"c", "s">>}

BaseIds == {<<"1">>, <<"1", "v", "1">>, LegacyPrefix \o <<"1">>, LegacyPrefix}

PadLens == {0} \cup (MinPad..MaxPad)

Pad(n) == [i \in 1..n |-> "0"]

\* what the request's Range / conditional headers ask for
ReqKinds == {"plain", "partial", "not_modified"}

ParseMsgs == {"invalid arXiv identifier", "bad version"}

StoreMsgs == {"deleted by admin", "tex failed"}

PublishTimes == [day : 1..MaxPublish]

FileObjs == [tag : {"FileObj"}, exists : BOOLEAN, size : 1..MaxSize, etag : {"e1"}]

Sentinels == {"VERSION_NOT_FOUND", "ARTICLE_NOT_FOUND", "WITHDRAWN", "NO_SOURCE", "UNAVAIABLE", "NOT_PDF"}

\* everything get_article_store().dissemination(formats.pdf, id) can return
Items == {None} \cup [tag : {"str"}, val : Sentinels] \cup [tag : {"Deleted", "CannotBuildPdf"}, msg : StoreMsgs] \cup FileObjs

\* everything Identifier(arxiv_id) can do: return an id or raise
ParseOutcomes == [tag : {"Identifier"}, has_version : BOOLEAN] \cup [tag : {"IdentifierException"}, msg : ParseMsgs]

(* ------------------------------ state --------------------------------- *)

VARIABLES pc, req, arxiv_id, id, item, resp, calls, publish, apc, raw_id, dbcalls, aresp

pdfvars == <<pc, req, arxiv_id, id, item, resp, calls, publish>>

authorvars == <<apc, raw_id, dbcalls, aresp>>

vars == <<pc, req, arxiv_id, id, item, resp, calls, publish, apc, raw_id, dbcalls, aresp>>

(* ------------------------- pure helpers (pdf) ------------------------- *)

\* f"{archive}/{arxiv_id}" if archive else arxiv_id
join_archive(archive, aid) == IF archive # <<>> THEN archive \o <<"/">> \o aid ELSE aid

too_long_m(s) == Len(s) > MaxIdLen + 1

\* len(arxiv_id) > 40
too_long(s) == Len(s) > MaxIdLen

startswith_m(s, p) == s = p

\* str.startswith
startswith(s, p) == Len(s) >= Len(p) /\ SubSeq(s, 1, Len(p)) = p

\* email.utils.format_datetime of a publish slot
format_datetime(t) == <<"rfc2822", t.day>>

NoHeaders == <<>>

has_header(r, h) == h \in DOMAIN r.headers

\* flask abort(code, description): werkzeug renders its own error page
abort(code, description) == [status |-> code, page |-> "abort", msg |-> description, headers |-> NoHeaders]

cc_versioned_m == "max-age=31536000"

cc_versioned == "max-age=604800"

withdrawn(aid) == [status |-> 200, page |-> "pdf/withdrawn.html", msg |-> "", headers |-> ("Cache-Cache" :> "max-age=31536000")]

unavailable(aid) == [status |-> 500, page |-> "pdf/unavaiable.html", msg |-> "", headers |-> NoHeaders]

not_pdf(aid) == [status |-> 404, page |-> "pdf/unavaiable.html", msg |-> "", headers |-> NoHeaders]

not_found_m(aid, np) == [status |-> 404, page |-> "pdf/not_found.html", msg |-> "", headers |-> NoHeaders]

not_found(aid, np) == [status |-> 404, page |-> "pdf/not_found.html", msg |-> "", headers |-> ("Expires" :> format_datetime(np))]

bad_id(aid, err_msg) == [status |-> 404, page |-> "pdf/bad_id.html", msg |-> err_msg, headers |-> NoHeaders]

cannot_build_pdf(aid, m) == [status |-> 404, page |-> "pdf/cannot_build_pdf.html", msg |-> m, headers |-> NoHeaders]

is_str(it, v) == it.tag = "str" /\ it.val = v

\* "not item": None is the falsy lookup result
falsy(it) == it = None

missing_m(it) == falsy(it)

\* not item or not item.exists()
missing(it) == falsy(it) \/ ~it.exists

dispatch_m(it) == IF falsy(it) \/ is_str(it, "VERSION_NOT_FOUND") \/ is_str(it, "ARTICLE_NOT_FOUND") THEN "not_found" ELSE IF is_str(it, "WITHDRAWN") \/ is_str(it, "NO_SOURCE") THEN "withdrawn" ELSE IF is_str(it, "NOT_PDF") THEN "unavailable" ELSE IF is_str(it, "UNAVAIABLE") THEN "not_pdf" ELSE IF it.tag = "Deleted" THEN "bad_id" ELSE IF it.tag = "CannotBuildPdf" THEN "cannot_build_pdf" ELSE IF missing(it) THEN "not_found" ELSE "serve"

\* the if/elif chain of pdf(): which branch a lookup result takes
dispatch(it) == IF falsy(it) \/ is_str(it, "VERSION_NOT_FOUND") \/ is_str(it, "ARTICLE_NOT_FOUND") THEN "not_found" ELSE IF is_str(it, "WITHDRAWN") \/ is_str(it, "NO_SOURCE") THEN "withdrawn" ELSE IF is_str(it, "UNAVAIABLE") THEN "unavailable" ELSE IF is_str(it, "NOT_PDF") THEN "not_pdf" ELSE IF it.tag = "Deleted" THEN "bad_id" ELSE IF it.tag = "CannotBuildPdf" THEN "cannot_build_pdf" ELSE IF missing(it) THEN "not_found" ELSE "serve"

\* status RangeRequest.make_response chooses for the request's headers
range_status(kind) == IF kind = "not_modified" THEN 304 ELSE IF kind = "partial" THEN 206 ELSE 200

\* RangeRequest(file.open('rb'), etag, last_modified, size).make_response()
make_response(file, kind) == LET st == range_status(kind) IN LET base == ("Content-Length" :> ToString(IF st = 206 THEN 1 ELSE file.size)) @@ ("Accept-Ranges" :> "bytes") @@ ("ETag" :> file.etag) IN [status |-> st, page |-> "file", msg |-> "", headers |-> IF st = 206 THEN base @@ ("Content-Range" :> "bytes 0-0") ELSE base]

drop(h, k) == [x \in DOMAIN h \ {k} |-> h[x]]

large_pdf_headers_m(r) == [r EXCEPT !.headers = drop(("Transfer-Encoding" :> "chunked") @@ r.headers, "Content-Length")]

\* if resp.status_code == 200: chunked and no content-length
large_pdf_headers(r) == IF r.status = 200 THEN [r EXCEPT !.headers = drop(("Transfer-Encoding" :> "chunked") @@ r.headers, "Content-Length")] ELSE r

cache_headers_m(r, ident, np) == [r EXCEPT !.headers = ("Expires" :> format_datetime(np)) @@ r.headers]

\* if id.has_version: Cache-Control else Expires
cache_headers(r, ident, np) == IF ident.has_version THEN [r EXCEPT !.headers = ("Cache-Control" :> cc_versioned) @@ r.headers] ELSE [r EXCEPT !.headers = ("Expires" :> format_datetime(np)) @@ r.headers]

\* resp.headers[...] = ... for the two fixed headers
fixed_headers(r) == [r EXCEPT !.headers = ("Access-Control-Allow-Origin" :> "*") @@ ("Content-Type" :> "application/pdf") @@ r.headers]

NoCalls == [parse |-> 0, lookup |-> 0, exists |-> 0, open |-> 0, resp |-> 0]

(* ---------------------------- pdf() steps ------------------------------ *)

\* a request reaches pdf(); line 54 joins the archive
Receive(archive, aid, kind, np) ==
    /\ pc = "idle"
    /\ req' = [archive |-> archive, arxiv_id |-> aid, kind |-> kind]
    /\ arxiv_id' = join_archive(archive, aid)
    /\ publish' = np
    /\ id' = None
    /\ item' = None
    /\ resp' = None
    /\ calls' = NoCalls
    /\ pc' = "validate"
    /\ UNCHANGED authorvars

\* a return statement (or an abort) ends the request
Respond(r) ==
    /\ resp' = r
    /\ pc' = "done"

\* the two abort() checks at the head of the try block
Validate ==
    /\ pc = "validate"
    /\ IF too_long(arxiv_id)
         THEN /\ Respond(abort(400, ""))
              /\ calls' = [calls EXCEPT !.resp = @ + 1]
         ELSE IF startswith(arxiv_id, LegacyPrefix)
                THEN /\ Respond(abort(400, LegacyMsg))
                     /\ calls' = [calls EXCEPT !.resp = @ + 1]
                ELSE /\ pc' = "parse"
                     /\ UNCHANGED <<resp, calls>>
    /\ UNCHANGED <<req, arxiv_id, id, item, publish>>
    /\ UNCHANGED authorvars

\* id = Identifier(arxiv_id), or the except branch
Parse(out) ==
    /\ pc = "parse"
    /\ id' = out
    /\ IF out.tag = "IdentifierException"
         THEN /\ Respond(bad_id(arxiv_id, out.msg))
              /\ calls' = [calls EXCEPT !.parse = @ + 1, !.resp = @ + 1]
         ELSE /\ pc' = "lookup"
              /\ calls' = [calls EXCEPT !.parse = @ + 1]
              /\ UNCHANGED resp
    /\ UNCHANGED <<req, arxiv_id, item, publish>>
    /\ UNCHANGED authorvars

\* item = get_article_store().dissemination(formats.pdf, id)
Lookup(it) ==
    /\ pc = "lookup"
    /\ item' = it
    /\ calls' = [calls EXCEPT !.lookup = @ + 1]
    /\ pc' = "dispatch"
    /\ UNCHANGED <<req, arxiv_id, id, resp, publish>>
    /\ UNCHANGED authorvars

\* the page each returning branch of the chain renders
branch_response(b) == IF b = "not_found" THEN not_found(arxiv_id, publish) ELSE IF b = "withdrawn" THEN withdrawn(arxiv_id) ELSE IF b = "unavailable" THEN unavailable(arxiv_id) ELSE IF b = "not_pdf" THEN not_pdf(arxiv_id) ELSE IF b = "bad_id" THEN bad_id(arxiv_id, item.msg) ELSE cannot_build_pdf(arxiv_id, item.msg)

\* the if/elif chain: every branch but the last returns a page;
\* item.exists() is reached only by file objects
Dispatch ==
    /\ pc = "dispatch"
    /\ LET b == dispatch(item)
           ex == IF item.tag = "FileObj" THEN 1 ELSE 0
       IN IF b = "serve"
            THEN /\ pc' = "serve"
                 /\ calls' = [calls EXCEPT !.exists = @ + ex]
                 /\ UNCHANGED resp
            ELSE /\ Respond(branch_response(b))
                 /\ calls' = [calls EXCEPT !.exists = @ + ex, !.resp = @ + 1]
    /\ UNCHANGED <<req, arxiv_id, id, item, publish>>
    /\ UNCHANGED authorvars

\* open the file, build the range response, set the headers, return
Serve ==
    /\ pc = "serve"
    /\ Respond(cache_headers(large_pdf_headers(fixed_headers(make_response(item, req.kind))), id, publish))
    /\ calls' = [calls EXCEPT !.open = @ + 1, !.resp = @ + 1]
    /\ UNCHANGED <<req, arxiv_id, id, item, publish>>
    /\ UNCHANGED authorvars

\* the response has been sent; the worker waits for the next request
Finish ==
    /\ pc = "done"
    /\ pc' = "idle"
    /\ req' = None
    /\ arxiv_id' = <<>>
    /\ id' = None
    /\ item' = None
    /\ resp' = None
    /\ calls' = NoCalls
    /\ UNCHANGED publish
    /\ UNCHANGED authorvars

Init ==
    /\ pc = "idle"
    /\ req = None
    /\ arxiv_id = <<>>
    /\ id = None
    /\ item = None
    /\ resp = None
    /\ calls = NoCalls
    /\ publish = [day |-> 1]
    /\ apc = "idle"
    /\ raw_id = <<>>
    /\ dbcalls = <<>>
    /\ aresp = None

Next ==
    \/ \E archive \in Archives, b \in BaseIds, n \in PadLens, kind \in ReqKinds, np \in PublishTimes : Receive(archive, b \o Pad(n), kind, np)
    \/ Validate
    \/ \E out \in ParseOutcomes : Parse(out)
    \/ \E it \in Items : Lookup(it)
    \/ Dispatch
    \/ Serve
    \/ Finish

Spec == Init /\ [][Next]_vars

(* ------------------------ properties of pdf() -------------------------- *)

Done == pc = "done"

\* the identifier string has more than 40 characters
LongId == Len(arxiv_id) > MaxIdLen

\* the identifier string begins with the six characters arxiv/
LegacyId == Len(arxiv_id) >= 6 /\ \A i \in 1..6 : arxiv_id[i] = LegacyPrefix[i]

Rejected == LongId \/ LegacyId \/ id.tag = "IdentifierException"

ItemIs(v) == item.tag = "str" /\ item.val = v

Served == Done /\ resp.page = "file"

\* C1: an identifier string longer than 40 characters is answered with
\* status 400, and the storage lookup is never invoked for that request.
C1_TooLongIs400 ==
    LongId =>
        /\ calls.lookup = 0
        /\ pc \in {"validate", "done"}
        /\ Done => resp.status = 400

C1_Witness == Done /\ Len(arxiv_id) = MaxIdLen + 1 /\ resp.status = 400 /\ calls.lookup = 0

\* C2: an identifier string of at most 40 characters that starts with
\* 'arxiv/' is answered with status 400 and the guidance message, and
\* neither the identifier parse nor the storage lookup is performed.
C2_LegacyPrefixIs400 ==
    (~LongId /\ LegacyId) =>
        /\ calls.parse = 0
        /\ calls.lookup = 0
        /\ Done => (resp.status = 400 /\ resp.msg = LegacyMsg)

C2_Witness == Done /\ ~LongId /\ Len(arxiv_id) > Len(LegacyPrefix) /\ LegacyId /\ resp.status = 400 /\ resp.msg = LegacyMsg

\* C3: an identifier that passes the length and prefix checks but fails to
\* parse is answered with status 400 and the "bad identifier" page carrying
\* the parser's message, and no storage lookup is performed.
C3_ParseFailureIs400 ==
    (Done /\ id.tag = "IdentifierException") =>
        /\ resp.status = 400
        /\ resp.page = "pdf/bad_id.html"
        /\ resp.msg = id.msg
        /\ calls.lookup = 0

\* C4 as stated: every response for a parsed identifier carries
\* Cache-Control max-age=604800 when the identifier has a version, and
\* Expires = next publish time without Cache-Control when it has none.
C4_EveryResponseCachePolicy == (Done /\ id.tag = "Identifier") => IF id.has_version THEN has_header(resp, "Cache-Control") /\ resp.headers["Cache-Control"] = "max-age=604800" /\ ~has_header(resp, "Expires") ELSE has_header(resp, "Expires") /\ resp.headers["Expires"] = format_datetime(publish) /\ ~has_header(resp, "Cache-Control")

\* C4 amended: every response that serves a found file carries
\* Cache-Control max-age=604800 and no Expires when the identifier has a
\* version, and Expires = next publish time and no Cache-Control otherwise.
C4_ServedCachePolicy == Served => IF id.has_version THEN has_header(resp, "Cache-Control") /\ resp.headers["Cache-Control"] = "max-age=604800" /\ ~has_header(resp, "Expires") ELSE has_header(resp, "Expires") /\ resp.headers["Expires"] = format_datetime(publish) /\ ~has_header(resp, "Cache-Control")

C4_Witness == Served /\ id.has_version /\ has_header(resp, "Cache-Control") /\ publish.day = MaxPublish

\* C5: a Withdrawn or NoSource lookup result is answered with status 200 and
\* the "withdrawn" page, carrying Cache-Control: max-age=31536000.
C5_WithdrawnCachedOneYear ==
    (Done /\ (ItemIs("WITHDRAWN") \/ ItemIs("NO_SOURCE"))) =>
        /\ resp.status = 200
        /\ resp.page = "pdf/withdrawn.html"
        /\ has_header(resp, "Cache-Control")
        /\ resp.headers["Cache-Control"] = "max-age=31536000"

\* C6: for a found file, a valid partial Range request yields 206 and keeps
\* Content-Length; a request without Range yields 200 with chunked transfer
\* and no Content-Length; chunked is set and Content-Length removed only
\* when the status is 200, never on 206 or 304.
C6_RangeAndChunked ==
    Served =>
        /\ req.kind = "partial" => (resp.status = 206 /\ has_header(resp, "Content-Length"))
        /\ req.kind = "plain" => (resp.status = 200 /\ has_header(resp, "Transfer-Encoding") /\ resp.headers["Transfer-Encoding"] = "chunked" /\ ~has_header(resp, "Content-Length"))
        /\ has_header(resp, "Transfer-Encoding") <=> resp.status = 200
        /\ ~has_header(resp, "Content-Length") <=> resp.status = 200

C6_Witness == Served /\ req.kind = "partial" /\ resp.status = 206 /\ has_header(resp, "Content-Length") /\ item.size = MaxSize

\* C7: VersionNotFound, ArticleNotFound, an empty result and a file object
\* whose exists() is false are answered with 404 and the "not found" page,
\* with Expires = next publish time, whether or not the id has a version.
C7_NotFoundIs404 ==
    (Done /\ calls.lookup = 1 /\ (item = None \/ ItemIs("VERSION_NOT_FOUND") \/ ItemIs("ARTICLE_NOT_FOUND") \/ (item.tag = "FileObj" /\ ~item.exists))) =>
        /\ resp.status = 404
        /\ resp.page = "pdf/not_found.html"
        /\ has_header(resp, "Expires")
        /\ resp.headers["Expires"] = format_datetime(publish)

C7_Witness == Done /\ item.tag = "FileObj" /\ ~item.exists /\ id.has_version /\ resp.status = 404 /\ publish.day = MaxPublish

\* C8: an Unavailable lookup result is answered with 500 and the
\* "unavailable" page with neither Cache-Control nor Expires, and no other
\* lookup result is answered with 500.
C8_UnavailableIs500 == (Done /\ calls.lookup = 1) => IF ItemIs("UNAVAIABLE") THEN resp.status = 500 /\ resp.page = "pdf/unavaiable.html" /\ ~has_header(resp, "Cache-Control") /\ ~has_header(resp, "Expires") ELSE resp.status # 500

C8_Witness == Done /\ ItemIs("UNAVAIABLE") /\ resp.status = 500

\* C10: every request ends in exactly one response after at most one
\* lookup: none when the identifier is rejected before or during parsing,
\* exactly one otherwise; the file is opened only for a file object whose
\* exists() is true.
C10_SingleLookupNoRetry ==
    /\ calls.lookup <= 1
    /\ calls.resp <= 1
    /\ calls.open <= 1
    /\ Done => (calls.resp = 1 /\ calls.lookup = (IF Rejected THEN 0 ELSE 1))
    /\ calls.open = 1 => (item.tag = "FileObj" /\ item.exists)
    /\ (Done /\ calls.lookup = 1 /\ item.tag = "FileObj" /\ item.exists) => calls.open = 1

C10_Witness == Done /\ calls.lookup = 1 /\ calls.open = 1 /\ calls.resp = 1 /\ item.exists /\ item.size = MaxSize

(* ---------------------- author controller helpers ---------------------- *)

\* groups retrieved per author by get_articles_for_author
MaxListings == 2

\* user ids the database can return
MaxUsers == 2

\* author.py:27
ORCID_URI_PREFIX == "https://orcid.org"

Str(s) == [tag |-> "str", s |-> s]

IntV(n) == [tag |-> "int", v |-> n]

Digits == {"0", "1", "2", "3", "4", "5", "6", "7", "8", "9"}

\* the percent escapes that decode to a character an author id is built from
HexPairs == {<<"2", "D">>, <<"2", "d">>, <<"5", "8">>, <<"5", "F">>}

hex_char(p) == IF p = <<"5", "8">> THEN "X" ELSE IF p = <<"5", "F">> THEN "_" ELSE "-"

RECURSIVE unquote(_)
\* urllib.parse.unquote: every %XX escape becomes the character it encodes
unquote(s) == IF s = <<>> THEN <<>> ELSE IF s[1] = "%" /\ Len(s) >= 3 /\ <<s[2], s[3]>> \in HexPairs THEN <<hex_char(<<s[2], s[3]>>)>> \o unquote(SubSeq(s, 4, Len(s))) ELSE <<s[1]>> \o unquote(Tail(s))

\* the 19 characters the pattern consumes: \d{4}-\d{4}-\d{4}-\d{3}[\dX]
orcid_body(s) == /\ \A i \in {1, 2, 3, 4, 6, 7, 8, 9, 11, 12, 13, 14, 16, 17, 18} : s[i] \in Digits
                 /\ \A i \in {5, 10, 15} : s[i] = "-"
                 /\ s[19] \in Digits \cup {"X"}

\* ORCID_RE.match(id): anchored at both ends; $ also matches before a final newline
ORCID_RE_match(s) == \/ Len(s) = 19 /\ orcid_body(s)
                     \/ Len(s) = 20 /\ s[20] = "\n" /\ orcid_body(s)

get_user_id_m(raw, found) == IF ORCID_RE_match(raw) THEN [user_id |-> found, is_orcid |-> TRUE, call |-> [fn |-> "get_user_id_by_orcid", arg |-> Str(unquote(raw)), ret |-> found]] ELSE [user_id |-> found, is_orcid |-> FALSE, call |-> [fn |-> "get_user_id_by_author_id", arg |-> Str(unquote(raw)), ret |-> found]]

\* _get_user_id: found is what the database lookup returns
get_user_id(raw, found) == LET i == unquote(raw) IN IF ORCID_RE_match(i) THEN [user_id |-> found, is_orcid |-> TRUE, call |-> [fn |-> "get_user_id_by_orcid", arg |-> Str(i), ret |-> found]] ELSE [user_id |-> found, is_orcid |-> FALSE, call |-> [fn |-> "get_user_id_by_author_id", arg |-> Str(i), ret |-> found]]

\* _get_orcid_uri: orcid is what get_orcid_by_user_id returns
get_orcid_uri(orcid) == IF orcid # None THEN Str(<<ORCID_URI_PREFIX, "/">> \o orcid.s) ELSE None

(* ----------------------- author request domains ------------------------ *)

Seps == {<<"-">>, <<"%", "2", "D">>}

Lasts == {<<"X">>, <<"5">>, <<"x">>, <<"%", "5", "8">>}

Tails == {<<>>, <<"\n">>, <<"1">>}

LastGroups == {<<"6", "7", "8">>, <<"6", "7">>}

OrcidLike == {<<"0", "0", "0", "0">> \o s1 \o <<"0", "0", "0", "1">> \o s2 \o <<"2", "3", "4", "5">> \o s3 \o g \o l \o t : s1 \in Seps, s2 \in Seps, s3 \in Seps, g \in LastGroups, l \in Lasts, t \in Tails}

AuthorIds == OrcidLike \cup {<<"s", "m", "i", "t", "h", "_", "j", "_", "1">>, <<"s", "m", "i", "t", "h", "%", "5", "F", "j", "_", "1">>}

UserIdResults == {None} \cup {IntV(n) : n \in 1..MaxUsers}

StoredOrcids == {None, Str(<<"0", "0", "0", "0", "-", "0", "0", "0", "2", "-", "1", "8", "2", "5", "-", "0", "0", "9", "7">>)}

DisplayNames == {"A. Smith"}

UrlRoot == "http://arxiv.org/a/"

(* --------------------------- get_a_page -------------------------------- *)

\* get_a_page(id, ext): found, name, orcid and n are what the database
\* returns to the calls the handler makes
GetAPage(rid, found, name, orcid, n) ==
    /\ apc = "idle"
    /\ raw_id' = rid
    /\ LET r == get_user_id(rid, found)
           uid == r.user_id
           c_name == [fn |-> "get_user_display_name", arg |-> uid, ret |-> Str(<<name>>)]
           c_orcid == [fn |-> "get_orcid_by_user_id", arg |-> uid, ret |-> orcid]
           c_list == [fn |-> "get_articles_for_author", arg |-> uid, ret |-> IntV(n)]
       IN IF uid = None
            THEN /\ aresp' = [status |-> 400, msg |-> <<"Author ">> \o rid \o <<" not found">>]
                 /\ dbcalls' = <<r.call>>
            ELSE /\ aresp' = [status |-> 200,
                              display_name |-> Str(<<name>>),
                              auri |-> Str(<<UrlRoot>> \o rid),
                              orcid |-> IF r.is_orcid THEN Str(<<ORCID_URI_PREFIX, "/">> \o unquote(rid)) ELSE get_orcid_uri(orcid),
                              title |-> Str(<<name, "'s articles on arXiv">>),
                              abstracts |-> [i \in 1..n |-> [list_index |-> (i - 1) + 1]]]
                 /\ dbcalls' = IF r.is_orcid THEN <<r.call, c_name, c_list>> ELSE <<r.call, c_name, c_orcid, c_list>>
    /\ apc' = "done"
    /\ UNCHANGED pdfvars

\* the page has been returned; the worker waits for the next request
AFinish ==
    /\ apc = "done"
    /\ apc' = "idle"
    /\ raw_id' = <<>>
    /\ dbcalls' = <<>>
    /\ aresp' = None
    /\ UNCHANGED pdfvars

NextAuthor ==
    \/ \E rid \in AuthorIds, found \in UserIdResults, name \in DisplayNames, orcid \in StoredOrcids, n \in 0..MaxListings : GetAPage(rid, found, name, orcid, n)
    \/ AFinish

SpecAuthor == Init /\ [][NextAuthor]_vars

(* ---------------------- properties of get_a_page ----------------------- *)

ADone == apc = "done"

CalledFn(f) == \E k \in 1..Len(dbcalls) : dbcalls[k].fn = f

CalledWith(f, a) == \E k \in 1..Len(dbcalls) : dbcalls[k].fn = f /\ dbcalls[k].arg = a

ReturnOf(f) == (CHOOSE c \in {dbcalls[k] : k \in 1..Len(dbcalls)} : c.fn = f).ret

\* C9 as stated: an id that matches the ORCID pattern is resolved through
\* get_user_id_by_orcid only, and the returned 'orcid' is the prefix followed
\* by the literal input id without calling get_orcid_by_user_id; an id that
\* does not match is resolved through get_user_id_by_author_id only and
\* 'orcid' comes from get_orcid_by_user_id.
C9_LiteralIdDecides == ADone => IF ORCID_RE_match(raw_id) THEN CalledFn("get_user_id_by_orcid") /\ ~CalledFn("get_user_id_by_author_id") /\ (aresp.status = 200 => (aresp.orcid = Str(<<ORCID_URI_PREFIX, "/">> \o raw_id) /\ ~CalledFn("get_orcid_by_user_id"))) ELSE CalledFn("get_user_id_by_author_id") /\ ~CalledFn("get_user_id_by_orcid") /\ (aresp.status = 200 => (CalledFn("get_orcid_by_user_id") /\ aresp.orcid = get_orcid_uri(ReturnOf("get_orcid_by_user_id"))))

\* C9 amended: the percent-decoded id decides.  When the decoded id matches
\* the ORCID pattern the user is resolved through get_user_id_by_orcid (on
\* the decoded id) and never through the author-id lookup, and 'orcid' is
\* prefix + "/" + decoded id without calling get_orcid_by_user_id; otherwise
\* only the author-id lookup is used and 'orcid' comes from
\* get_orcid_by_user_id (None when the user has none).
C9_DecodedIdDecides == ADone => LET i == unquote(raw_id) IN IF ORCID_RE_match(i) THEN CalledWith("get_user_id_by_orcid", Str(i)) /\ ~CalledFn("get_user_id_by_author_id") /\ (aresp.status = 200 => (aresp.orcid = Str(<<ORCID_URI_PREFIX, "/">> \o i) /\ ~CalledFn("get_orcid_by_user_id"))) ELSE CalledWith("get_user_id_by_author_id", Str(i)) /\ ~CalledFn("get_user_id_by_orcid") /\ (aresp.status = 200 => (CalledFn("get_orcid_by_user_id") /\ aresp.orcid = get_orcid_uri(ReturnOf("get_orcid_by_user_id"))))

C9_Witness == ADone /\ raw_id # unquote(raw_id) /\ ORCID_RE_match(unquote(raw_id)) /\ aresp.status = 200 /\ aresp.orcid = Str(<<ORCID_URI_PREFIX, "/">> \o unquote(raw_id)) /\ Len(aresp.abstracts) = MaxListings

====
